---- MODULE Spec2Model ----
(***************************************************************************)
(* xENSO: climatology / anomaly extraction (xenso/core.py), the dimension  *)
(* validator (xenso/utils.py), the Nino zone averager and the ECindex      *)
(* engine (xenso/indices.py), as a state machine.                          *)
(*                                                                         *)
(* Numbers.  Every array value is an extended rational <<n, d>>:           *)
(*   d > 0  the finite value n/d in lowest terms,                          *)
(*   <<1,0>> +inf,  <<-1,0>> -inf,  <<0,0>> NaN  (IEEE results of numpy).  *)
(* Time.  A time coordinate is an absolute month number t >= 0; its        *)
(* calendar month (xarray's time.month) is (t % 12) + 1.  Label slices     *)
(* are inclusive at both ends, as pandas label slicing is.                 *)
(***************************************************************************)
EXTENDS Integers, Sequences, FiniteSets, TLC

VARIABLES
    call,             \* the operation last invoked, with its arguments
    result,           \* what that operation returned or raised
    pc,               \* position of the ECindex constructor / instance
    config,           \* self.lat_range, self.long_range, self.base_period
    sst_data,         \* self.sst_data
    climatology,      \* self.climatology
    solver,           \* self.solver
    anom_pcs,         \* self.anom_pcs
    anom_smooth_pcs,  \* self.anom_smooth_pcs (the smoothed-PC cache)
    smooth_kernel,    \* self._smooth_kernel
    corr_factor,      \* self._corr_factor
    ncompute          \* how many times _compute_pcs has run

vars == <<call, result, pc, config, sst_data, climatology, solver, anom_pcs,
          anom_smooth_pcs, smooth_kernel, corr_factor, ncompute>>

ecvars == <<pc, config, sst_data, climatology, solver, anom_pcs,
            anom_smooth_pcs, smooth_kernel, corr_factor, ncompute>>

(***************************************************************************)
(* Bounds of the model.                                                    *)
(***************************************************************************)
NYears == 2          \* length of the monthly series handed to core.py, in years
NTime == 2           \* time samples of the projected PCs
MaxKernelLen == 2    \* longest smoothing kernel assigned besides the default
MaxCorrLen == 3      \* longest correction-factor vector assigned
MaxLoading == 1      \* EOF loadings range over -MaxLoading..MaxLoading

(***************************************************************************)
(* Extended rational arithmetic (numpy float semantics, exact).            *)
(***************************************************************************)
Abs(n) == IF n < 0 THEN -n ELSE n

Sign(n) == IF n > 0 THEN 1 ELSE IF n < 0 THEN -1 ELSE 0

RECURSIVE Gcd(_, _)
Gcd(a, b) == IF b = 0 THEN a ELSE Gcd(b, a % b)

\* n/d as an extended rational; x/0 is +-inf and 0/0 is NaN, as numpy divides
Quot(n, d) ==
    IF d = 0 THEN <<Sign(n), 0>>
    ELSE LET s == Sign(d)
             g == Gcd(Abs(n), Abs(d))
         IN  <<(s * n) \div g, (s * d) \div g>>

NaN == <<0, 0>>

Zero == <<0, 1>>

One == <<1, 1>>

FromInt(n) == <<n, 1>>

IsFinite(a) == a[2] # 0

Mul(a, b) == Quot(a[1] * b[1], a[2] * b[2])

Add(a, b) ==
    IF IsFinite(a) /\ IsFinite(b) THEN Quot(a[1] * b[2] + b[1] * a[2], a[2] * b[2])
    ELSE IF a = NaN \/ b = NaN THEN NaN
    ELSE IF ~IsFinite(a) /\ ~IsFinite(b) THEN (IF a = b THEN a ELSE NaN)
    ELSE IF IsFinite(a) THEN b ELSE a

Neg(a) == <<-a[1], a[2]>>

Sub(a, b) == Add(a, Neg(b))

\* a > 0 as numpy compares: False for NaN
Positive(a) == a[1] > 0

RECURSIVE SumSeq(_)
SumSeq(s) == IF s = <<>> THEN Zero ELSE Add(Head(s), SumSeq(Tail(s)))

RECURSIVE IntSum(_)
IntSum(s) == IF s = <<>> THEN 0 ELSE Head(s) + IntSum(Tail(s))

Range(s) == {s[i] : i \in DOMAIN s}

\* the members of a finite set of integers, ascending
RECURSIVE Ascending(_)
Ascending(S) ==
    IF S = {} THEN <<>>
    ELSE LET m == CHOOSE x \in S : \A y \in S : x <= y
         IN  <<m>> \o Ascending(S \ {m})

(***************************************************************************)
(* Results of a call.                                                      *)
(***************************************************************************)
None == [kind |-> "None"]

Raise(e, msg) == [kind |-> "error", error |-> e, names |-> msg]

\* errors xarray raises for a dimension it does not find (KeyError or a plain
\* ValueError, by version); never MissingDimensionsError
LookupErrors == {"KeyError", "ValueError"}

IsError(r) == r.kind = "error"

(***************************************************************************)
(* xenso/utils.py                                                          *)
(***************************************************************************)
\* str.lower on the dimension names of the model
Lower(d) == IF d = "Time" THEN "time" ELSE d

_check_dimensions(data, extra_dims) ==
    LET data_dims == {Lower(d) : d \in Range(data.dims)}
        wanted == <<"time">> \o extra_dims
        missing == {i \in DOMAIN wanted : wanted[i] \notin data_dims}
    IN  IF missing = {} THEN None
        ELSE LET first == CHOOSE i \in missing : \A j \in missing : i <= j
             IN  Raise("MissingDimensionsError", wanted[first])

(***************************************************************************)
(* xenso/core.py: climatology and anomaly.                                 *)
(* A time series is [dims, time, vals]: the name of its axis, the          *)
(* coordinate of each sample (ascending month numbers) and its values.     *)
(* A climatology is [kind, months, mean]: the month labels, ascending, and *)
(* the mean of each.                                                       *)
(***************************************************************************)
MonthOf(t) == (t % 12) + 1

HasTime(data) == "time" \in Range(data.dims)

\* data.sel(time=slice(*base_period)): the positions kept
SelTime(data, base_period) ==
    Ascending({i \in DOMAIN data.time :
                  base_period[1] <= data.time[i] /\ data.time[i] <= base_period[2]})

\* GroupMean reindexed to the twelve calendar months, NaN where a month has no sample
GroupMeanAllMonths(data, idx) ==
    LET members(m) == Ascending({k \in DOMAIN idx : MonthOf(data.time[idx[k]]) = m})
        total(m) == IntSum([j \in DOMAIN members(m) |-> data.vals[idx[members(m)[j]]]])
    IN  [kind |-> "climatology",
         months |-> [m \in 1..12 |-> m],
         mean |-> [m \in 1..12 |-> Quot(total(m), Len(members(m)))]]

\* .groupby("time.month").mean() of the samples at positions idx
GroupMean(data, idx) ==
    LET present == {MonthOf(data.time[idx[k]]) : k \in DOMAIN idx}
        members(m) == Ascending({k \in DOMAIN idx : MonthOf(data.time[idx[k]]) = m})
        total(m) == IntSum([j \in DOMAIN members(m) |-> data.vals[idx[members(m)[j]]]])
    IN  [kind |-> "climatology",
         months |-> Ascending(present),
         mean |-> [m \in present |-> Quot(total(m), Len(members(m)))]]

\* the outcomes of compute_climatology(data, base_period)
compute_climatology(data, base_period) ==
    IF ~HasTime(data)
    THEN {Raise(e, "time") : e \in LookupErrors}
    ELSE LET idx == SelTime(data, base_period)
         IN  IF idx = <<>>
             THEN {Raise("ValueError", "group")}
             ELSE {[kind |-> "ok", clim |-> GroupMean(data, idx)]}

\* GroupSubtract aligned by the position of a sample instead of its time label
GroupSubtractByPosition(data, clim) ==
    LET absent == {i \in DOMAIN data.time : MonthOf(i) \notin Range(clim.months)}
        diff == [i \in DOMAIN data.time |->
                    IF i \in absent THEN NaN
                    ELSE Sub(FromInt(data.vals[i]), clim.mean[MonthOf(i)])]
        done == [kind |-> "ok",
                 field |-> [dims |-> data.dims, time |-> data.time, vals |-> diff]]
    IN  IF absent = {} THEN {done}
        ELSE {done} \cup {Raise(e, "month") : e \in LookupErrors}

\* data.groupby("time.month") - climatology: a month the climatology lacks
\* gives NaN or, in older xarray, an error
GroupSubtract(data, clim) ==
    LET absent == {i \in DOMAIN data.time : MonthOf(data.time[i]) \notin Range(clim.months)}
        diff == [i \in DOMAIN data.time |->
                    IF i \in absent THEN NaN
                    ELSE Sub(FromInt(data.vals[i]), clim.mean[MonthOf(data.time[i])])]
        done == [kind |-> "ok",
                 field |-> [dims |-> data.dims, time |-> data.time, vals |-> diff]]
    IN  IF absent = {} THEN {done}
        ELSE {done} \cup {Raise(e, "month") : e \in LookupErrors}

\* the outcomes of compute_anomaly(data, climatology, base_period)
compute_anomaly(data, clim, base_period) ==
    IF clim = None /\ base_period = <<>>
    THEN {Raise("ValueError", "climatology")}
    ELSE LET cands == IF clim = None
                      THEN compute_climatology(data, base_period)
                      ELSE {[kind |-> "ok", clim |-> clim]}
         IN  UNION {IF IsError(c) THEN {c}
                    ELSE IF ~HasTime(data) THEN {Raise(e, "time") : e \in LookupErrors}
                    ELSE GroupSubtract(data, c.clim) : c \in cands}

(***************************************************************************)
(* xenso/indices.py: the Nino zone averager.                               *)
(* A spatial field is [dims, lat, lon, vals]: the names of its dimensions, *)
(* the coordinate labels in the order the field holds them, and            *)
(* vals[i][j], the value at lat[i], lon[j].                                *)
(***************************************************************************)
zones ==
    [z \in {"12", "3", "34", "4"} |->
        CASE z = "12" -> [lat |-> <<-10, 0>>, lon |-> <<270, 280>>]
          [] z = "3"  -> [lat |-> <<-5, 5>>,  lon |-> <<210, 270>>]
          [] z = "34" -> [lat |-> <<-5, 5>>,  lon |-> <<190, 240>>]
          [] z = "4"  -> [lat |-> <<-5, 5>>,  lon |-> <<160, 210>>]]

Some(v) == [kind |-> "Some", v |-> v]

\* the index of a coordinate is monotonic (not strictly) in one direction
IsIncreasing(idx) == \A i, j \in DOMAIN idx : i < j => idx[i] <= idx[j]

IsDecreasing(idx) == \A i, j \in DOMAIN idx : i < j => idx[i] >= idx[j]

\* .sel(dim=slice(lo, hi)): the positions a label slice selects.  On an
\* increasing index, the labels within [lo, hi]; on a decreasing index, the
\* positions from the first label <= lo to the last label >= hi (none when
\* lo < hi); on an index that is not monotonic, the positions from the one
\* holding lo to the one holding hi, and a KeyError when a bound is not a
\* label held exactly once
SliceIndexer(dim, idx, lo, hi) ==
    LET at(x) == {i \in DOMAIN idx : idx[i] = x}
    IN  IF IsIncreasing(idx)
        THEN Some(Ascending({i \in DOMAIN idx : lo <= idx[i] /\ idx[i] <= hi}))
        ELSE IF IsDecreasing(idx)
        THEN Some(Ascending((Cardinality({i \in DOMAIN idx : idx[i] > lo}) + 1)
                            .. Cardinality({i \in DOMAIN idx : idx[i] >= hi})))
        ELSE IF Cardinality(at(lo)) = 1 /\ Cardinality(at(hi)) = 1
        THEN Some(Ascending((CHOOSE i \in at(lo) : TRUE) .. (CHOOSE i \in at(hi) : TRUE)))
        ELSE Raise("KeyError", dim)

\* .mean(dim=["lat", "lon"]) over the selected rows and columns.  NaN cells are
\* skipped (skipna), an infinite cell makes the mean infinite (NaN when both
\* signs occur), and a selection with no cell to average is NaN
CellMean(rows, cols, vals) ==
    LET kept(i) == Ascending({j \in Range(cols) : vals[i][j] # NaN})
        rowsum(i) == SumSeq([k \in DOMAIN kept(i) |-> vals[i][kept(i)[k]]])
        total == SumSeq([k \in DOMAIN rows |-> rowsum(rows[k])])
        n == IntSum([k \in DOMAIN rows |-> Len(kept(rows[k]))])
    IN  Quot(total[1], total[2] * n)

\* .sel(lat=slice(..), lon=slice(..)).mean(dim=["lat", "lon"]) on coordinates
\* sorted ascending, where the selection cannot fail
BoxMean(lat, lon, vals, box) ==
    CellMean(SliceIndexer("lat", lat, box.lat[1], box.lat[2]).v,
             SliceIndexer("lon", lon, box.lon[1], box.lon[2]).v, vals)

\* the outcomes of enzones: the lookup zones[zone] fails with KeyError for a key
\* the dictionary does not hold; .sel fails on a field without lat or lon, and
\* on a lat or lon index that is not monotonic and does not hold the bounds
enzones(data, zone) ==
    IF zone \notin DOMAIN zones
    THEN {Raise("KeyError", zone)}
    ELSE IF "lat" \notin Range(data.dims)
    THEN {Raise(e, "lat") : e \in LookupErrors}
    ELSE IF "lon" \notin Range(data.dims)
    THEN {Raise(e, "lon") : e \in LookupErrors}
    ELSE LET box == zones[zone]
             rows == SliceIndexer("lat", data.lat, box.lat[1], box.lat[2])
             cols == SliceIndexer("lon", data.lon, box.lon[1], box.lon[2])
         IN  IF IsError(rows) THEN {rows}
             ELSE IF IsError(cols) THEN {cols}
             ELSE {[kind |-> "ok", mean |-> CellMean(rows.v, cols.v, data.vals)]}

(***************************************************************************)
(* Inputs of the calls into core.py, utils.py and enzones.                 *)
(***************************************************************************)
Horizon == 12 * NYears

\* the seasonal cycle of the periodic series (np.arange(12) in the tests)
Cycle(m) == m - 1

SeriesOf(dim, missing, shape) ==
    LET times == Ascending((0..(Horizon - 1)) \ missing)
    IN  [dims |-> <<dim>>,
         time |-> times,
         vals |-> [i \in DOMAIN times |->
                      CASE shape = "periodic" -> Cycle(MonthOf(times[i]))
                        [] shape = "trend"    -> times[i]
                        [] shape = "mixed"    -> (times[i] * times[i]) % 5]]

\* no gap, one sample missing, one calendar month never sampled
Gaps == {{}, {3}, {t \in 0..(Horizon - 1) : MonthOf(t) = 4}}

SeriesInputs ==
    {SeriesOf(dim, missing, shape) :
        dim \in {"time", "month", "Time"}, missing \in Gaps,
        shape \in {"periodic", "trend", "mixed"}}

BasePeriods == {<<s, e>> : s \in 0..(Horizon - 1), e \in 0..(Horizon - 1)}

\* the 12-value climatology of the periodic series, and one of half a year
FullClimatology ==
    [kind |-> "climatology",
     months |-> [m \in 1..12 |-> m],
     mean |-> [m \in 1..12 |-> FromInt(Cycle(m))]]

HalfClimatology ==
    [kind |-> "climatology",
     months |-> [m \in 1..6 |-> m],
     mean |-> [m \in 1..6 |-> FromInt(Cycle(m))]]

\* the ways of holding some of the labels of S, each at most once, in any order
Orderings(S) ==
    {q \in UNION {[1..n -> S] : n \in 0..Cardinality(S)} :
        \A i, j \in DOMAIN q : i # j => q[i] # q[j]}

GridOf(dims, lat, lon, shape) ==
    [dims |-> dims, lat |-> lat, lon |-> lon,
     vals |-> [i \in DOMAIN lat |-> [j \in DOMAIN lon |->
                  CASE shape = "lon"    -> FromInt(lon[j])
                    [] shape = "sum"    -> FromInt(lat[i] + lon[j])
                    [] shape = "masked" -> IF j = 1 THEN NaN ELSE FromInt(lon[j])
                    [] shape = "inf"    -> IF j = 1 THEN <<1, 0>> ELSE FromInt(lon[j])]]]

\* fields in every order of their labels (south to north, north to south,
\* unsorted), and fields whose lat or lon dimension goes by another name
GridInputs ==
    {GridOf(<<"lat", "lon">>, lat, lon, shape) :
        lat \in Orderings({-5, 0, 5}), lon \in Orderings({190, 215, 240, 275}),
        shape \in {"lon", "sum", "masked", "inf"}}
    \cup {GridOf(dims, <<-5, 0, 5>>, <<190, 215, 240, 275>>, "lon") :
            dims \in {<<"y", "lon">>, <<"lat", "x">>, <<"y", "x">>}}

ZoneInputs == {"12", "3", "34", "4", "1+2", "3.4", "5"}

(***************************************************************************)
(* The calls: the initial state holds a call and its arguments, the action *)
(* runs it.                                                                *)
(***************************************************************************)
Pending == [kind |-> "pending"]

\* the calls the model makes, with their arguments
IsCallInput(c) ==
    \/ \E data \in SeriesInputs, extra \in {<<>>, <<"lat">>} :
          c = [op |-> "_check_dimensions", data |-> data, extra_dims |-> extra]
    \/ \E data \in SeriesInputs, bp \in BasePeriods :
          c = [op |-> "compute_climatology", data |-> data, base_period |-> bp]
    \/ \E data \in SeriesInputs, bp \in {<<>>} \cup BasePeriods :
          c = [op |-> "compute_anomaly", data |-> data, climatology |-> None,
               base_period |-> bp]
    \/ \E data \in SeriesInputs, clim \in {FullClimatology, HalfClimatology},
          bp \in {<<>>, <<0, 11>>} :
          c = [op |-> "compute_anomaly", data |-> data, climatology |-> clim,
               base_period |-> bp]
    \/ \E data \in GridInputs, zone \in ZoneInputs :
          c = [op |-> "enzones", data |-> data, zone |-> zone]

CallCheckDimensions ==
    /\ call.op = "_check_dimensions" /\ result = Pending
    /\ result' = _check_dimensions(call.data, call.extra_dims)
    /\ UNCHANGED <<call, ecvars>>

CallComputeClimatology ==
    /\ call.op = "compute_climatology" /\ result = Pending
    /\ result' \in compute_climatology(call.data, call.base_period)
    /\ UNCHANGED <<call, ecvars>>

CallComputeAnomaly ==
    /\ call.op = "compute_anomaly" /\ result = Pending
    /\ result' \in compute_anomaly(call.data, call.climatology, call.base_period)
    /\ UNCHANGED <<call, ecvars>>

CallEnzones ==
    /\ call.op = "enzones" /\ result = Pending
    /\ result' \in enzones(call.data, call.zone)
    /\ UNCHANGED <<call, ecvars>>

NoInstance ==
    /\ pc = "none"
    /\ config = None
    /\ sst_data = None
    /\ climatology = None
    /\ solver = None
    /\ anom_pcs = None
    /\ anom_smooth_pcs = None
    /\ smooth_kernel = None
    /\ corr_factor = None
    /\ ncompute = 0

InitCore ==
    /\ IsCallInput(call)
    /\ result = Pending
    /\ NoInstance

NextCore ==
    \/ CallCheckDimensions
    \/ CallComputeClimatology
    \/ CallComputeAnomaly
    \/ CallEnzones

SpecCore == InitCore /\ [][NextCore]_vars

(***************************************************************************)
(* xenso/core.py: xconvolve.  scipy.ndimage.convolve1d of a series x with  *)
(* weights w (mode "reflect", origin 0):                                   *)
(*     out[i] = SUM_k w[k] * ext[i + n \div 2 - k]    (0-based, n = len w) *)
(* where ext continues x by mirroring it at each end (d c b a|a b c d|...).*)
(***************************************************************************)
\* the 0-based position inside 0..N-1 that the 0-based position e mirrors to
Reflect(e, N) ==
    LET q == e % (2 * N)
    IN  IF q < N THEN q ELSE 2 * N - 1 - q

Convolve1d(x, w) ==
    LET N == Len(x)
        n == Len(w)
    IN  [i \in 1..N |->
            SumSeq([k \in 1..n |->
                Mul(w[k], x[Reflect((i - 1) + (n \div 2) - (k - 1), N) + 1])])]

\* xconvolve(data, kernel, dim="time") of PCs data[t][mode]: each mode's series
\* convolved along time, the time labels re-attached
xconvolve(data, kernel) ==
    LET along(m) == Convolve1d([t \in DOMAIN data |-> data[t][m]], kernel)
    IN  [t \in DOMAIN data |-> [m \in DOMAIN data[t] |-> along(m)[t]]]

(***************************************************************************)
(* xenso/indices.py: ECindex.                                              *)
(* Optional attributes are None or Some(v).  The SST field is held by its  *)
(* grid and by whether it holds raw SST or anomalies; the EOF solver (the  *)
(* eofs library) is held by what it returns: the loadings of the two       *)
(* leading modes on the cells of the sub-domain, and the projected PCs.    *)
(***************************************************************************)

Modes == {0, 1}

\* kernel / kernel.sum() of the smooth_kernel setter, without the division
KernelNotNormalized(kernel) == [i \in DOMAIN kernel |-> FromInt(kernel[i])]

\* kernel / kernel.sum() of the smooth_kernel setter
NormalizeKernel(kernel) ==
    LET total == IntSum(kernel)
    IN  [i \in DOMAIN kernel |-> Quot(kernel[i], total)]

\* the corr_factor setter accepting any length: entries beyond the second are
\* dropped and missing ones left at 1
CorrFactorAnyLength(cf) ==
    [kind |-> "ok",
     value |-> [m \in Modes |-> IF m + 1 \in DOMAIN cf THEN FromInt(cf[m + 1]) ELSE One]]

\* xr.DataArray(np.array(corr_factor), coords=[("mode", [0, 1])]): the data must
\* have the two entries the mode coordinate has, or the constructor raises
CorrFactorArray(cf) ==
    IF Len(cf) # 2
    THEN Raise("ValueError", "mode")
    ELSE [kind |-> "ok", value |-> [m \in Modes |-> FromInt(cf[m + 1])]]

\* anom_pcs taken as they are, the correction factor left out
_uncorrected_pcs ==
    anom_pcs.v

\* self.anom_pcs * self.corr_factor, aligned on mode
_corrected_pcs ==
    [t \in DOMAIN anom_pcs.v |->
        [m \in Modes |-> Mul(anom_pcs.v[t][m], corr_factor.v[m])]]

\* the reference box of _auto_corr_factor
AutoBox == [lat |-> <<-5, 5>>, lon |-> <<180, 200>>]

\* _auto_corr_factor with the comparison "mean >= 0"
AutoCorrFactorNonNegative(eofs, lat, lon) ==
    <<IF BoxMean(lat, lon, eofs[0], AutoBox)[1] >= 0
         /\ BoxMean(lat, lon, eofs[0], AutoBox) # NaN THEN 1 ELSE -1,
      IF BoxMean(lat, lon, eofs[1], AutoBox)[1] >= 0
         /\ BoxMean(lat, lon, eofs[1], AutoBox) # NaN THEN 1 ELSE -1>>

\* the vector _auto_corr_factor assigns: 1 where the mean loading of the mode
\* over the box is > 0, else -1
AutoCorrFactor(eofs, lat, lon) ==
    <<IF Positive(BoxMean(lat, lon, eofs[0], AutoBox)) THEN 1 ELSE -1,
      IF Positive(BoxMean(lat, lon, eofs[1], AutoBox)) THEN 1 ELSE -1>>

\* _compute_index: E = (pc1 - pc2) / sqrt(2), C = (pc1 + pc2) / sqrt(2); the
\* values are kept in units of 1 / sqrt(2)
_compute_index(pcs) ==
    [E_index |-> [t \in DOMAIN pcs |-> Sub(pcs[t][0], pcs[t][1])],
     C_index |-> [t \in DOMAIN pcs |-> Add(pcs[t][0], pcs[t][1])]]

\* solver.eofs(neofs=2, eofscaling=1) * self.corr_factor
CorrectedEofs ==
    [m \in Modes |->
        [i \in DOMAIN solver.v.lat |->
            [j \in DOMAIN solver.v.lon |->
                Mul(solver.v.eofs[m][i][j], corr_factor.v[m])]]]

(***************************************************************************)
(* The constructor, in the order of its statements.                        *)
(***************************************************************************)
\* lines 34-42: the attributes, the climatology, the anomaly
CtorData ==
    /\ pc = "new"
    /\ call.op = "ECindex"
    /\ config' = Some([lat_range |-> call.lat_range, long_range |-> call.long_range,
                       base_period |-> call.base_period])
    /\ climatology' =
          IF call.climatology = None /\ ~call.isanomaly
          THEN Some([kind |-> "climatology", base_period |-> call.base_period])
          ELSE call.climatology
    /\ sst_data' = Some([lat |-> call.sst_data.lat, lon |-> call.sst_data.lon,
                         holds |-> IF call.isanomaly THEN call.sst_data.holds
                                   ELSE "anomaly"])
    /\ pc' = "data"
    /\ UNCHANGED <<call, result, solver, anom_pcs, anom_smooth_pcs, smooth_kernel,
                   corr_factor, ncompute>>

\* _compute_pcs: the sub-domain of the sorted field, the solver, the projection
\* of the whole series, the cache reset
ComputePcs(loadings, pcsamples) ==
    LET sublat == Ascending({x \in Range(sst_data.v.lat) :
                      config.v.lat_range[1] <= x /\ x <= config.v.lat_range[2]})
        sublon == Ascending({x \in Range(sst_data.v.lon) :
                      config.v.long_range[1] <= x /\ x <= config.v.long_range[2]})
    IN  /\ \E eofs \in [Modes -> [DOMAIN sublat -> [DOMAIN sublon -> loadings]]] :
              solver' = Some([lat |-> sublat, lon |-> sublon,
                              base_period |-> config.v.base_period, eofs |-> eofs])
        /\ \E pcs \in pcsamples : anom_pcs' = Some(pcs)
        /\ anom_smooth_pcs' = None
        /\ ncompute' = ncompute + 1

CtorComputePcs(loadings, pcsamples) ==
    /\ pc = "data"
    /\ ComputePcs(loadings, pcsamples)
    /\ pc' = "pcs"
    /\ UNCHANGED <<call, result, config, sst_data, climatology, smooth_kernel, corr_factor>>

\* line 44: self.smooth_kernel = smooth_kernel
CtorSmoothKernel ==
    /\ pc = "pcs"
    /\ smooth_kernel' = Some(NormalizeKernel(call.smooth_kernel))
    /\ pc' = "kernel"
    /\ UNCHANGED <<call, result, config, sst_data, climatology, solver, anom_pcs,
                   anom_smooth_pcs, corr_factor, ncompute>>

\* lines 45-48: the correction factor, resolved or assigned; an assignment that
\* raises ends the construction
CtorCorrFactor ==
    /\ pc = "kernel"
    /\ LET given == IF call.auto_corr
                    THEN AutoCorrFactor(solver.v.eofs, solver.v.lat, solver.v.lon)
                    ELSE call.corr_factor
           made == CorrFactorArray(given)
       IN  IF IsError(made)
           THEN /\ result' = made
                /\ pc' = "failed"
                /\ UNCHANGED corr_factor
           ELSE /\ result' = [kind |-> "ok"]
                /\ pc' = "ready"
                /\ corr_factor' = Some(made.value)
    /\ UNCHANGED <<call, config, sst_data, climatology, solver, anom_pcs,
                   anom_smooth_pcs, smooth_kernel, ncompute>>

(***************************************************************************)
(* The operations on a constructed instance.                               *)
(***************************************************************************)
\* corr_factor.setter
SetCorrFactor(cf) ==
    /\ pc = "ready"
    /\ call' = [op |-> "set_corr_factor", arg |-> cf]
    /\ LET made == CorrFactorArray(cf)
       IN  IF IsError(made)
           THEN result' = made /\ UNCHANGED corr_factor
           ELSE result' = [kind |-> "ok"] /\ corr_factor' = Some(made.value)
    /\ UNCHANGED <<pc, config, sst_data, climatology, solver, anom_pcs,
                   anom_smooth_pcs, smooth_kernel, ncompute>>

\* the smooth_kernel setter running _compute_pcs again, the solver returning the
\* modes with the other sign
SetSmoothKernelRecomputing(kernel) ==
    /\ pc = "ready"
    /\ call' = [op |-> "set_smooth_kernel", arg |-> kernel]
    /\ result' = [kind |-> "ok"]
    /\ smooth_kernel' = Some(NormalizeKernel(kernel))
    /\ anom_pcs' = Some([t \in DOMAIN anom_pcs.v |-> [m \in Modes |-> Neg(anom_pcs.v[t][m])]])
    /\ anom_smooth_pcs' = None
    /\ ncompute' = ncompute + 1
    /\ UNCHANGED <<pc, config, sst_data, climatology, solver, corr_factor>>

\* smooth_kernel.setter
SetSmoothKernel(kernel) ==
    /\ pc = "ready"
    /\ call' = [op |-> "set_smooth_kernel", arg |-> kernel]
    /\ result' = [kind |-> "ok"]
    /\ smooth_kernel' = Some(NormalizeKernel(kernel))
    /\ UNCHANGED <<pc, config, sst_data, climatology, solver, anom_pcs,
                   anom_smooth_pcs, corr_factor, ncompute>>

\* the smoothed PCs pcs_smooth returns, and the cache it leaves
SmoothedPcs ==
    IF anom_smooth_pcs = None
    THEN xconvolve(_corrected_pcs, smooth_kernel.v)
    ELSE anom_smooth_pcs.v

\* pcs
ReadPcs ==
    /\ pc = "ready"
    /\ call' = [op |-> "pcs"]
    /\ result' = [kind |-> "ok", pcs |-> _corrected_pcs]
    /\ UNCHANGED ecvars

\* pcs_smooth
ReadPcsSmooth ==
    /\ pc = "ready"
    /\ call' = [op |-> "pcs_smooth"]
    /\ anom_smooth_pcs' = Some(SmoothedPcs)
    /\ result' = [kind |-> "ok", pcs |-> SmoothedPcs]
    /\ UNCHANGED <<pc, config, sst_data, climatology, solver, anom_pcs,
                   smooth_kernel, corr_factor, ncompute>>

\* ecindex
ReadEcindex ==
    /\ pc = "ready"
    /\ call' = [op |-> "ecindex"]
    /\ result' = [kind |-> "ok", index |-> _compute_index(_corrected_pcs)]
    /\ UNCHANGED ecvars

\* ecindex_smooth
ReadEcindexSmooth ==
    /\ pc = "ready"
    /\ call' = [op |-> "ecindex_smooth"]
    /\ anom_smooth_pcs' = Some(SmoothedPcs)
    /\ result' = [kind |-> "ok", index |-> _compute_index(SmoothedPcs)]
    /\ UNCHANGED <<pc, config, sst_data, climatology, solver, anom_pcs,
                   smooth_kernel, corr_factor, ncompute>>

\* eofs
ReadEofs ==
    /\ pc = "ready"
    /\ call' = [op |-> "eofs"]
    /\ result' = [kind |-> "ok", eofs |-> CorrectedEofs]
    /\ UNCHANGED ecvars

\* patterns: the covariance of ecindex with sst_data over the base period,
\* over the standard deviation of the index; held by what it is computed from
ReadPatterns ==
    /\ pc = "ready"
    /\ call' = [op |-> "patterns"]
    /\ result' = [kind |-> "ok",
                  patterns |-> [index |-> _compute_index(_corrected_pcs),
                                field |-> sst_data.v,
                                base_period |-> config.v.base_period]]
    /\ UNCHANGED ecvars

(***************************************************************************)
(* Inputs of the ECindex constructor and setters, and the specifications.  *)
(***************************************************************************)
SeqsUpTo(S, lo, hi) == UNION {[1..k -> S] : k \in lo..hi}

DefaultKernel == <<1, 2, 1>>

DefaultLatRange == <<-10, 10>>

DefaultLongRange == <<110, 290>>

\* a field of one cell, and one of three latitudes given north to south, the
\* northernmost outside the reference box of _auto_corr_factor
OneCellGrid == [lat |-> <<0>>, lon |-> <<190>>]

ThreeCellGrid == [lat |-> <<8, 4, -4>>, lon |-> <<190>>]

CtorInputs(grids, latranges, kernels, corrs, autos) ==
    {[op |-> "ECindex",
      sst_data |-> [lat |-> g.lat, lon |-> g.lon,
                    holds |-> IF d[1] THEN "anomaly" ELSE "sst"],
      isanomaly |-> d[1],
      climatology |-> d[2],
      lat_range |-> lr,
      long_range |-> DefaultLongRange,
      base_period |-> <<0, 11>>,
      auto_corr |-> a[1],
      corr_factor |-> a[2],
      smooth_kernel |-> k] :
        g \in grids, lr \in latranges, k \in kernels,
        d \in {<<FALSE, None>>, <<TRUE, None>>,
               <<FALSE, Some([kind |-> "climatology", base_period |-> <<12, 23>>])>>},
        a \in {<<FALSE, c>> : c \in corrs} \cup {<<TRUE, <<>> >> : x \in autos}}

\* the PCs a projection returns: mode 0 takes 1 or 2 at each time, mode 1 falls
PcSamples ==
    {[t \in 1..NTime |-> [m \in Modes |-> FromInt(IF m = 0 THEN a[t] ELSE 0 - t)]] :
        a \in [1..NTime -> {1, 2}]}

OnePcSample == {[t \in 1..NTime |-> [m \in Modes |-> FromInt(IF m = 0 THEN t ELSE 0 - t)]]}

Loadings == {FromInt(v) : v \in (0 - MaxLoading)..MaxLoading}

InitInstance(inputs) ==
    /\ call \in inputs
    /\ result = Pending
    /\ pc = "new"
    /\ config = None
    /\ sst_data = None
    /\ climatology = None
    /\ solver = None
    /\ anom_pcs = None
    /\ anom_smooth_pcs = None
    /\ smooth_kernel = None
    /\ corr_factor = None
    /\ ncompute = 0

\* The life of one instance: construction, then assignments and reads in any order.
LifeKernels == {DefaultKernel, <<1>>, <<1, 1>>}

LifeCorrs == {<<1, 1>>, <<-1, 1>>, <<1, -1>>, <<-1, -1>>, <<1>>}

Init == InitInstance(CtorInputs({OneCellGrid}, {DefaultLatRange}, {DefaultKernel},
                                {<<1, 1>>, <<-1, -1>>}, {1}))

Next ==
    \/ CtorData
    \/ CtorComputePcs({One}, PcSamples)
    \/ CtorSmoothKernel
    \/ CtorCorrFactor
    \/ \E cf \in LifeCorrs : SetCorrFactor(cf)
    \/ \E kernel \in LifeKernels : SetSmoothKernel(kernel)
    \/ ReadPcs
    \/ ReadPcsSmooth
    \/ ReadEcindex
    \/ ReadEcindexSmooth
    \/ ReadEofs
    \/ ReadPatterns

Spec == Init /\ [][Next]_vars

\* The setters, over every short vector.
SetterKernels == SeqsUpTo({-1, 0, 1}, 1, MaxKernelLen) \cup {DefaultKernel, <<1, 1, 1>>}

SetterCorrs == SeqsUpTo({-1, 1}, 0, MaxCorrLen)

InitSetters == InitInstance(CtorInputs({OneCellGrid}, {DefaultLatRange}, SetterKernels,
                                       SetterCorrs, {1}))

NextSetters ==
    \/ CtorData
    \/ CtorComputePcs({One}, OnePcSample)
    \/ CtorSmoothKernel
    \/ CtorCorrFactor
    \/ \E cf \in SetterCorrs : SetCorrFactor(cf)
    \/ \E kernel \in SetterKernels : SetSmoothKernel(kernel)

SpecSetters == InitSetters /\ [][NextSetters]_vars

\* The automatic correction factor, over every loading of the sub-domain.
InitAuto == InitInstance(CtorInputs({ThreeCellGrid}, {DefaultLatRange, <<6, 10>>},
                                    {DefaultKernel}, {}, {1}))

NextAuto ==
    \/ CtorData
    \/ CtorComputePcs(Loadings, OnePcSample)
    \/ CtorSmoothKernel
    \/ CtorCorrFactor
    \/ ReadEofs

SpecAuto == InitAuto /\ [][NextAuto]_vars

(***************************************************************************)
(* Properties of the calls into core.py, utils.py and enzones.             *)
(***************************************************************************)
\* the error compute_anomaly raises when given neither climatology nor base period
InvalidArgument == "ValueError"

Ran(op) == call.op = op /\ result # Pending

NoTimeDimension(data) == "time" \notin {Lower(d) : d \in Range(data.dims)}

\* C2: compute_climatology, and compute_anomaly given a climatology or a base
\* period, on a field without a time dimension end in MissingDimensionsError
\* naming time, and in nothing else.
C2_MissingDimensionRaised ==
    /\ (Ran("compute_climatology") /\ NoTimeDimension(call.data))
          => result = Raise("MissingDimensionsError", "time")
    /\ (/\ Ran("compute_anomaly")
        /\ NoTimeDimension(call.data)
        /\ (call.climatology # None \/ call.base_period # <<>>))
          => result = Raise("MissingDimensionsError", "time")

TwelveMonths == [m \in 1..12 |-> m]

\* the time labels of data that lie inside the base period
InsidePeriod(data, base_period) ==
    {t \in Range(data.time) : base_period[1] <= t /\ t <= base_period[2]}

\* C3 (as stated): the climatology of any field with a time axis, over any base
\* period, has exactly the twelve entries month = 1..12.
C3_AlwaysTwelveMonths ==
    (Ran("compute_climatology") /\ HasTime(call.data))
        => (result.kind = "ok" /\ result.clim.months = TwelveMonths)

\* C3 (amended): the climatology has exactly one entry for each calendar month
\* that occurs among the samples inside the base period, in ascending order,
\* so twelve entries exactly when those samples cover all twelve months; a base
\* period that selects no sample ends in an error and no climatology.
C3_OneEntryPerSampledMonth ==
    (Ran("compute_climatology") /\ HasTime(call.data))
        => LET present == {MonthOf(t) : t \in InsidePeriod(call.data, call.base_period)}
           IN  IF present = {}
               THEN IsError(result)
               ELSE /\ result.kind = "ok"
                    /\ Range(result.clim.months) = present
                    /\ Len(result.clim.months) = Cardinality(present)
                    /\ \A k \in 1..(Len(result.clim.months) - 1) :
                          result.clim.months[k] < result.clim.months[k + 1]
                    /\ DOMAIN result.clim.mean = present
                    /\ (result.clim.months = TwelveMonths <=> present = 1..12)

C3_Witness ==
    /\ Ran("compute_climatology")
    /\ result.kind = "ok"
    /\ Len(result.clim.months) = 3
    /\ call.base_period[2] - call.base_period[1] = 2
    /\ result.clim.months # <<1, 2, 3>>

\* a sample every month, and a value that depends on the calendar month only
MonthlyPeriodic(data) ==
    /\ Len(data.time) >= 12
    /\ \A i \in 1..(Len(data.time) - 1) : data.time[i + 1] = data.time[i] + 1
    /\ \A i, j \in DOMAIN data.time :
          MonthOf(data.time[i]) = MonthOf(data.time[j]) => data.vals[i] = data.vals[j]

\* clim is the 12-value seasonal cycle of data
MatchingClimatology(clim, data) ==
    /\ clim.months = TwelveMonths
    /\ \A i \in DOMAIN data.time : clim.mean[MonthOf(data.time[i])] = FromInt(data.vals[i])

\* whole calendar years, inside the series
FullYearsInside(base_period, data) ==
    /\ base_period[1] % 12 = 0
    /\ base_period[2] % 12 = 11
    /\ base_period[1] < base_period[2]
    /\ data.time[1] <= base_period[1]
    /\ base_period[2] <= data.time[Len(data.time)]

\* C4: the anomaly of a monthly, 12-month periodic series is exactly zero at
\* every sample of the series, with its own 12-value climatology passed and
\* with only a base period of whole years inside the series passed.
C4_PeriodicAnomalyIsZero ==
    (/\ Ran("compute_anomaly")
     /\ HasTime(call.data)
     /\ MonthlyPeriodic(call.data)
     /\ IF call.climatology # None
        THEN MatchingClimatology(call.climatology, call.data)
        ELSE /\ call.base_period # <<>>
             /\ FullYearsInside(call.base_period, call.data))
        => /\ result.kind = "ok"
           /\ result.field.time = call.data.time
           /\ \A i \in DOMAIN call.data.time : result.field.vals[i] = Zero

C4_Witness ==
    /\ Ran("compute_anomaly")
    /\ HasTime(call.data)
    /\ MonthlyPeriodic(call.data)
    /\ call.climatology = None
    /\ call.base_period # <<>>
    /\ FullYearsInside(call.base_period, call.data)
    /\ call.data.time[1] < call.base_period[1]
    /\ result.kind = "ok"
    /\ \E i, j \in DOMAIN call.data.time : call.data.vals[i] # call.data.vals[j]

\* C8: a zone key other than "12", "3", "34", "4" fails with the error
\* compute_anomaly raises when given neither climatology nor base period
\* (InvalidArgument) and returns no value, and one of the four keys never
\* raises that error.
C8_UnknownZoneInvalidArgument ==
    Ran("enzones")
        => IF call.zone \in {"12", "3", "34", "4"}
           THEN ~(IsError(result) /\ result.error = InvalidArgument)
           ELSE IsError(result) /\ result.error = InvalidArgument

(***************************************************************************)
(* Properties of an ECindex instance.                                      *)
(***************************************************************************)
\* r = a * c for finite rationals, by cross-multiplication
IsProduct(r, a, c) ==
    /\ IsFinite(r) /\ IsFinite(a) /\ IsFinite(c)
    /\ r[1] * a[2] * c[2] = a[1] * c[1] * r[2]

\* the raw PCs times the correction factor stored now, smoothed with the kernel
\* stored now
CurrentSmoothedPcs ==
    xconvolve([t \in DOMAIN anom_pcs.v |->
                  [m \in Modes |-> Mul(anom_pcs.v[t][m], corr_factor.v[m])]],
              smooth_kernel.v)

\* C1: every read of pcs_smooth, and of ecindex_smooth, returns the raw PCs
\* times the correction factor in effect at the read, smoothed with the kernel
\* in effect at the read: no value cached under an earlier factor or kernel.
C1_SmoothedReadIsCurrent ==
    /\ Ran("pcs_smooth") => result.pcs = CurrentSmoothedPcs
    /\ Ran("ecindex_smooth") => result.index = _compute_index(CurrentSmoothedPcs)

\* the vector last assigned to smooth_kernel, when the last operation assigned one
KernelAssigned ==
    \/ call.op = "set_smooth_kernel"
    \/ call.op = "ECindex" /\ pc \in {"kernel", "ready", "failed"}

AssignedKernel == IF call.op = "ECindex" THEN call.smooth_kernel ELSE call.arg

\* C5 (as stated): the kernel held sums to 1 and is the assigned vector divided
\* by its sum, whatever the sum of the assigned vector.
C5_KernelSumsToOne ==
    /\ smooth_kernel # None => SumSeq(smooth_kernel.v) = One
    /\ KernelAssigned =>
          \A i \in DOMAIN AssignedKernel :
              IsProduct(FromInt(AssignedKernel[i]), smooth_kernel.v[i],
                        FromInt(IntSum(AssignedKernel)))

\* C5 (amended): for an assigned vector whose sum is not zero (negative sums
\* included) the kernel held is the vector divided by its sum and sums to 1;
\* for a vector whose sum is zero the division yields inf, -inf or NaN in
\* every entry and the kernel does not sum to 1.
C5_KernelNormalizedUnlessZeroSum ==
    /\ smooth_kernel # None =>
          \/ SumSeq(smooth_kernel.v) = One
          \/ \A i \in DOMAIN smooth_kernel.v : ~IsFinite(smooth_kernel.v[i])
    /\ KernelAssigned =>
          /\ DOMAIN smooth_kernel.v = DOMAIN AssignedKernel
          /\ IF IntSum(AssignedKernel) # 0
             THEN /\ SumSeq(smooth_kernel.v) = One
                  /\ \A i \in DOMAIN AssignedKernel :
                        IsProduct(FromInt(AssignedKernel[i]), smooth_kernel.v[i],
                                  FromInt(IntSum(AssignedKernel)))
             ELSE /\ SumSeq(smooth_kernel.v) # One
                  /\ \A i \in DOMAIN AssignedKernel : ~IsFinite(smooth_kernel.v[i])

C5_Witness ==
    /\ call.op = "set_smooth_kernel"
    /\ Len(call.arg) = 2
    /\ IntSum(call.arg) < 0
    /\ call.arg[1] # call.arg[2]
    /\ SumSeq(smooth_kernel.v) = One

C6_Stored ==
    /\ corr_factor # None => DOMAIN corr_factor.v = Modes
    /\ pc = "ready" => corr_factor # None
    /\ Ran("set_corr_factor") =>
          IF Len(call.arg) = 2
          THEN /\ result.kind = "ok"
               /\ \A m \in Modes : corr_factor.v[m] = FromInt(call.arg[m + 1])
          ELSE result = Raise(InvalidArgument, "mode")
    /\ (call.op = "ECindex" /\ pc \in {"ready", "failed"} /\ ~call.auto_corr) =>
          IF Len(call.corr_factor) = 2
          THEN /\ pc = "ready"
               /\ \A m \in Modes : corr_factor.v[m] = FromInt(call.corr_factor[m + 1])
          ELSE /\ pc = "failed"
               /\ result = Raise(InvalidArgument, "mode")
               /\ corr_factor = None

C6_FailedKeeps ==
    (call'.op = "set_corr_factor" /\ IsError(result')) => corr_factor' = corr_factor

\* C6: the stored correction factor always has exactly the two entries mode 0
\* and mode 1; an assignment or constructor argument of another length raises
\* the InvalidArgument error at the assignment, and a failed assignment leaves
\* the stored factor as it was.
C6_CorrFactorLength == []C6_Stored /\ [][C6_FailedKeeps]_vars

C6_Witness ==
    /\ Ran("set_corr_factor")
    /\ Len(call.arg) = 3
    /\ IsError(result)
    /\ corr_factor # None
    /\ corr_factor.v[0] # corr_factor.v[1]

\* C7: pcs returns the raw projected PCs times the correction factor stored
\* now, mode by mode and sample by sample, whatever was assigned before; with
\* factor [1, 1] it returns the raw PCs.
C7_PcsAreRawTimesFactor ==
    Ran("pcs") =>
        /\ DOMAIN result.pcs = DOMAIN anom_pcs.v
        /\ \A t \in DOMAIN anom_pcs.v : \A m \in Modes :
              IsProduct(result.pcs[t][m], anom_pcs.v[t][m], corr_factor.v[m])
        /\ (\A m \in Modes : corr_factor.v[m] = One) => result.pcs = anom_pcs.v

C7_Witness ==
    /\ Ran("pcs")
    /\ corr_factor.v[0] = FromInt(-1)
    /\ corr_factor.v[1] = One
    /\ result.pcs # anom_pcs.v

C10_Once ==
    /\ ncompute <= 1
    /\ pc \in {"pcs", "kernel", "ready", "failed"} =>
          ncompute = 1 /\ solver # None /\ anom_pcs # None
    /\ pc \in {"new", "data"} => ncompute = 0 /\ solver = None /\ anom_pcs = None
    /\ (smooth_kernel # None \/ corr_factor # None) => ncompute = 1
    /\ pc # "new" => sst_data # None /\ config # None

C10_Frame ==
    /\ pc # "new" => UNCHANGED <<sst_data, config>>
    /\ pc \notin {"new", "data"} => UNCHANGED <<solver, anom_pcs, ncompute>>

\* C10: the solver and the raw PCs, and the stored field, base period and
\* sub-domain bounds, are computed once, during construction and before the
\* kernel and the correction factor are set; no assignment and no read
\* changes them afterwards.
C10_ComputedOnceThenFixed == []C10_Once /\ [][C10_Frame]_vars

C10_Witness ==
    /\ pc = "ready"
    /\ call.op = "set_smooth_kernel"
    /\ anom_smooth_pcs # None
    /\ ncompute = 1

\* construction has just ended with the correction factor resolved automatically
AutoResolved == pc = "ready" /\ call.op = "ECindex" /\ call.auto_corr

\* the mean loading of mode m over the reference box, before and after correction
RawBoxMean(m) == BoxMean(solver.v.lat, solver.v.lon, solver.v.eofs[m], AutoBox)

CorrectedBoxMean(m) == BoxMean(solver.v.lat, solver.v.lon, CorrectedEofs[m], AutoBox)

\* C9 (as stated): the resolved entries are +1 or -1, the corrected EOF of each
\* mode has a positive mean loading over the box, and the entry is +1 exactly
\* when the uncorrected mean is > 0.
C9_CorrectedLoadingPositive ==
    AutoResolved =>
        \A m \in Modes :
            /\ corr_factor.v[m] \in {One, FromInt(-1)}
            /\ Positive(CorrectedBoxMean(m))
            /\ corr_factor.v[m] = One <=> Positive(RawBoxMean(m))

\* C9 (amended): the resolved entries are +1 or -1, +1 exactly when the
\* uncorrected mean loading over the box is > 0; the corrected mean loading is
\* positive when the uncorrected mean is defined and not zero, is zero (entry
\* -1) when the uncorrected mean is zero, and is undefined (entry -1) when the
\* box holds no cell of the sub-domain.
C9_CorrectedLoadingPositiveUnlessZero ==
    AutoResolved =>
        \A m \in Modes :
            /\ corr_factor.v[m] \in {One, FromInt(-1)}
            /\ corr_factor.v[m] = One <=> Positive(RawBoxMean(m))
            /\ (IsFinite(RawBoxMean(m)) /\ RawBoxMean(m) # Zero)
                  => Positive(CorrectedBoxMean(m))
            /\ RawBoxMean(m) = Zero
                  => (CorrectedBoxMean(m) = Zero /\ corr_factor.v[m] = FromInt(-1))
            /\ RawBoxMean(m) = NaN
                  => (CorrectedBoxMean(m) = NaN /\ corr_factor.v[m] = FromInt(-1))

C9_Witness ==
    /\ AutoResolved
    /\ RawBoxMean(0)[1] < 0
    /\ corr_factor.v[0] = FromInt(-1)
    /\ Positive(CorrectedBoxMean(0))
    /\ RawBoxMean(1) = Zero
    /\ \E i \in DOMAIN solver.v.lat : solver.v.eofs[1][i][1] # Zero

====
